---- MODULE Spec2Model ----
(***************************************************************************)
(* The TD3 training driver of gym_forestfire (src/gym_forestfire/main.py): *)
(* the start-up sequence (directories, policy, model load, replay buffer), *)
(* the training loop and eval_policy, as a state machine whose pc follows  *)
(* the statements of the script.                                           *)
(*                                                                         *)
(* The environment, the TD3 agent and the replay buffer are other modules; *)
(* the driver only calls them.  Here env.reset/env.step return a fresh     *)
(* observation identifier, a reward and a done flag chosen by the          *)
(* environment; replay_buffer.add and policy.train are recorded as calls.  *)
(* The value eval_policy returns and the tree count of a results row are   *)
(* not computed: an Evaluation line carries the number of the call.        *)
(***************************************************************************)
EXTENDS Integers, Sequences, FiniteSets, TLC

\* ------------------------------------------------------------- bounds
\* Largest --max_timesteps explored.
MaxT == 3
\* Largest --start_episode explored.
MaxStart == 1
\* Largest --eval_freq explored.
MaxEvalFreq == 2
\* Long runs: the environment reports done no earlier than LongMargin steps
\* before the episode step limit, every reward is 1, and the run lasts
\* LongMargin steps beyond the limit.
LongMargin == 2

\* Largest reward an environment step returns.
MaxReward == 1

\* ------------------------------------------------- program constants
\* env.spec.max_episode_steps = 1000
max_episode_steps == 1000
\* eval_policy(..., eval_episodes=3)
eval_episodes == 3

PolicyNames == {"TD3", "DDPG"}
ModelNames == {"", "7-6"}
NoObs == 0
NoAction == [kind |-> "none", obs |-> NoObs]
NoTransition == [state |-> NoObs, action |-> NoAction, next_state |-> NoObs,
                 reward |-> 0, done |-> 0]

VARIABLES
    args,               \* the parsed command line (args.save_model is assigned later)
    fs,                 \* which of ./results, ./models, ./models/<load_model>.pkl exist
    log,                \* the lines of ./results/<load_model>.txt
    pc,                 \* the statement the script is at
    policy,             \* the agent: where it came from and its train() calls
    replay_buffer,      \* the buffer: created, number of add() calls, last add()
    env,                \* the training environment
    state, done, episode_reward, episode_timesteps, episode_num, t,
    action, next_state, reward, done_bool,
    eval,               \* the locals of a running eval_policy call
    hist                \* history of the run, read by the properties only

vars == <<args, fs, log, pc, policy, replay_buffer, env, state, done,
          episode_reward, episode_timesteps, episode_num, t, action,
          next_state, reward, done_bool, eval, hist>>

loopVars == <<state, done, episode_reward, episode_timesteps, episode_num, t,
              action, next_state, reward, done_bool>>

\* --------------------------------------------------------- helpers
RECURSIVE SumSeq(_)
SumSeq(s) == IF s = <<>> THEN 0 ELSE Head(s) + SumSeq(Tail(s))

IsPrefix(s, u) == Len(s) <= Len(u) /\ SubSeq(u, 1, Len(s)) = s

CountKind(s, k) == Cardinality({i \in 1..Len(s) : s[i].kind = k})

\* f"{episode_reward}, {episode_timesteps}, {num_trees}\n"
ResultRow(r, n) == [kind |-> "row", reward |-> r, timesteps |-> n]

\* f"Evaluation: {evaluations}\n"
EvaluationLine(v) == [kind |-> "evaluation", reward |-> v, timesteps |-> 0]

\* open(path, "w") instead of "a": the file is truncated first.
TruncateWrite(lines, line) == <<line>>

\* with open(f"./results/{args.load_model}.txt", "a") as f: f.write(line)
AppendLine(lines, line) == Append(lines, line)

\* The policy name is not looked at.
AnyPolicy(a) == TRUE

\* if args.policy == "TD3":
PolicySupported(a) == a.policy = "TD3"

\* The existence of the file is not tested.
LoadRequested(a, f) == a.load_model # ""

\* if args.load_model != "": if os.path.exists(f"./models/{args.load_model}.pkl"):
ShouldLoad(a, f) == a.load_model # "" /\ f.model_file

\* if episode_num < args.start_episode:
UseRandomAction(n, a) == n < a.start_episode

\* Training starts one episode late.
TrainLate(n, a) == n > a.start_episode

\* if episode_num >= args.start_episode:
ShouldTrain(n, a) == n >= a.start_episode

\* if (episode_num + 1) % args.eval_freq == 0 and episode_num > args.start_episode:
ShouldEvaluate(n, a) == (n + 1) % a.eval_freq = 0 /\ n > a.start_episode

\* The limit is compared with <=.
DoneBoolInclusive(d, n) == IF n <= max_episode_steps THEN (IF d THEN 1 ELSE 0) ELSE 0

\* done_bool = float(done) if episode_timesteps < env.spec.max_episode_steps else 0
DoneBool(d, n) == IF n < max_episode_steps THEN (IF d THEN 1 ELSE 0) ELSE 0

\* The state is overwritten by next_state before the add.
StaleTransition(s, a, ns, r, db) ==
    [state |-> ns, action |-> a, next_state |-> ns, reward |-> r, done |-> db]

\* replay_buffer.add(state, action, next_state, reward, done_bool)
Transition(s, a, ns, r, db) ==
    [state |-> s, action |-> a, next_state |-> ns, reward |-> r, done |-> db]

\* The done flags the environment may report after n steps of the episode.
DoneChoices(e, n) == IF n < e.quiet THEN {FALSE} ELSE BOOLEAN

\* ------------------------------------------------------------ Init
ArgSets(policies, models, saves, starts, freqs, budgets) ==
    [policy : policies, load_model : models, save_model : saves,
     start_episode : starts, eval_freq : freqs, max_timesteps : budgets]

FsSets == {f \in [results_dir : BOOLEAN, models_dir : BOOLEAN, model_file : BOOLEAN] :
             f.model_file => f.models_dir}

InitRest ==
    /\ log = <<>>
    /\ pc = "mkdirs"
    /\ policy = [origin |-> "unset", updates |-> 0]
    /\ replay_buffer = [created |-> FALSE, adds |-> 0, last |-> NoTransition]
    /\ state = NoObs
    /\ done = FALSE
    /\ episode_reward = 0
    /\ episode_timesteps = 0
    /\ episode_num = 0
    /\ t = 0
    /\ action = NoAction
    /\ next_state = NoObs
    /\ reward = 0
    /\ done_bool = 0
    /\ eval = [i |-> 0, in_episode |-> FALSE]
    /\ hist = [iter |-> <<>>, rewards |-> <<>>, steps |-> 0, resets |-> 0,
               completed |-> 0, eval_calls |-> 0, since_eval |-> 0, gap |-> 0,
               step_done |-> FALSE, prev_state |-> NoObs,
               file0 |-> fs.model_file, saves |-> 0]

\* The state after args = parser.parse_args() (line 121).
Init ==
    /\ args \in ArgSets(PolicyNames, ModelNames, BOOLEAN, 0..MaxStart,
                        1..MaxEvalFreq, 0..MaxT)
    /\ fs \in FsSets
    /\ env = [quiet |-> 0, rewards |-> 0..MaxReward, obs |-> 0]
    /\ InitRest

\* Runs long enough to reach the episode step limit.
InitLong ==
    /\ args \in ArgSets(PolicyNames, {""}, {FALSE}, {0}, {1},
                        {max_episode_steps + LongMargin})
    /\ fs \in {f \in FsSets : ~f.model_file /\ f.results_dir}
    /\ env = [quiet |-> max_episode_steps - LongMargin, rewards |-> {1}, obs |-> 0]
    /\ InitRest

\* --------------------------------------------------------- start-up
\* lines 128-134
MakeDirs ==
    /\ pc = "mkdirs"
    /\ fs' = [fs EXCEPT !.results_dir = TRUE,
                        !.models_dir = @ \/ args.save_model]
    /\ pc' = "init_policy"
    /\ UNCHANGED <<args, log, policy, replay_buffer, env, loopVars, eval, hist>>

\* lines 157-162
InitPolicy ==
    /\ pc = "init_policy"
    /\ PolicySupported(args)
    /\ policy' = [origin |-> "fresh", updates |-> 0]
    /\ pc' = "load_model"
    /\ UNCHANGED <<args, fs, log, replay_buffer, env, loopVars, eval, hist>>

\* lines 163-164
ExitUnsupported ==
    /\ pc = "init_policy"
    /\ ~PolicySupported(args)
    /\ pc' = "exited"
    /\ UNCHANGED <<args, fs, log, policy, replay_buffer, env, loopVars, eval, hist>>

\* lines 166-171
LoadModel ==
    /\ pc = "load_model"
    /\ policy' = IF ShouldLoad(args, fs)
                 THEN [origin |-> "loaded", updates |-> 0]
                 ELSE policy
    /\ pc' = "make_buffer"
    /\ UNCHANGED <<args, fs, log, replay_buffer, env, loopVars, eval, hist>>

\* line 173
MakeBuffer ==
    /\ pc = "make_buffer"
    /\ replay_buffer' = [created |-> TRUE, adds |-> 0, last |-> NoTransition]
    /\ pc' = "reset"
    /\ UNCHANGED <<args, fs, log, policy, env, loopVars, eval, hist>>

\* lines 178-182
FirstReset ==
    /\ pc = "reset"
    /\ env' = [env EXCEPT !.obs = @ + 1]
    /\ state' = env.obs + 1
    /\ done' = FALSE
    /\ episode_reward' = 0
    /\ episode_timesteps' = 0
    /\ episode_num' = 0
    /\ hist' = [hist EXCEPT !.resets = @ + 1, !.rewards = <<>>]
    /\ pc' = "for"
    /\ UNCHANGED <<args, fs, log, policy, replay_buffer, t, action, next_state,
                   reward, done_bool, eval>>

\* ---------------------------------------------------- training loop
\* lines 186-188: the next iteration starts
LoopEnter ==
    /\ pc = "for"
    /\ t < args.max_timesteps
    /\ episode_timesteps' = episode_timesteps + 1
    /\ hist' = [hist EXCEPT !.iter = <<>>]
    /\ pc' = "select"
    /\ UNCHANGED <<args, fs, log, policy, replay_buffer, env, state, done,
                   episode_reward, episode_num, t, action, next_state, reward,
                   done_bool, eval>>

\* line 186: range(int(args.max_timesteps)) is exhausted
LoopExit ==
    /\ pc = "for"
    /\ ~(t < args.max_timesteps)
    /\ pc' = "finished"
    /\ UNCHANGED <<args, fs, log, policy, replay_buffer, env, loopVars, eval, hist>>

\* lines 192-198
SelectAction ==
    /\ pc = "select"
    /\ IF UseRandomAction(episode_num, args)
       THEN /\ action' = [kind |-> "sample", obs |-> NoObs]
            /\ hist' = [hist EXCEPT !.iter = Append(@, "sample")]
       ELSE /\ action' = [kind |-> "policy", obs |-> state]
            /\ hist' = [hist EXCEPT !.iter = Append(@, "select_action")]
    /\ pc' = "step"
    /\ UNCHANGED <<args, fs, log, policy, replay_buffer, env, state, done,
                   episode_reward, episode_timesteps, episode_num, t,
                   next_state, reward, done_bool, eval>>

\* line 201
EnvStep ==
    /\ pc = "step"
    /\ \E r \in env.rewards, d \in DoneChoices(env, episode_timesteps) :
          /\ reward' = r
          /\ done' = d
          /\ hist' = [hist EXCEPT !.iter = Append(@, "step"),
                                  !.rewards = Append(@, r),
                                  !.steps = @ + 1,
                                  !.step_done = d,
                                  !.prev_state = state]
    /\ env' = [env EXCEPT !.obs = @ + 1]
    /\ next_state' = env.obs + 1
    /\ pc' = "add"
    /\ UNCHANGED <<args, fs, log, policy, replay_buffer, state, episode_reward,
                   episode_timesteps, episode_num, t, action, done_bool, eval>>

\* lines 207-213
StoreTransition ==
    /\ pc = "add"
    /\ done_bool' = DoneBool(done, episode_timesteps)
    /\ replay_buffer' = [replay_buffer EXCEPT
                           !.adds = @ + 1,
                           !.last = Transition(state, action, next_state, reward,
                                               done_bool')]
    /\ state' = next_state
    /\ episode_reward' = episode_reward + reward
    /\ hist' = [hist EXCEPT !.iter = Append(@, "add")]
    /\ pc' = "train"
    /\ UNCHANGED <<args, fs, log, policy, env, done, episode_timesteps,
                   episode_num, t, action, next_state, reward, eval>>

\* lines 216-218
Train ==
    /\ pc = "train"
    /\ IF ShouldTrain(episode_num, args)
       THEN /\ policy' = [policy EXCEPT !.updates = @ + 1]
            /\ hist' = [hist EXCEPT !.iter = Append(@, "train")]
       ELSE UNCHANGED <<policy, hist>>
    /\ pc' = "episode_end"
    /\ UNCHANGED <<args, fs, log, replay_buffer, env, loopVars, eval>>

\* lines 220-232, done is true
EpisodeEnd ==
    /\ pc = "episode_end"
    /\ done
    /\ log' = AppendLine(log, ResultRow(episode_reward, episode_timesteps))
    /\ env' = [env EXCEPT !.obs = @ + 1]
    /\ state' = env.obs + 1
    /\ done' = FALSE
    /\ episode_reward' = 0
    /\ episode_timesteps' = 0
    /\ episode_num' = episode_num + 1
    /\ hist' = [hist EXCEPT !.iter = Append(Append(@, "row"), "reset"),
                            !.rewards = <<>>,
                            !.resets = @ + 1,
                            !.completed = @ + 1,
                            !.since_eval = @ + 1]
    /\ pc' = "evaluate"
    /\ UNCHANGED <<args, fs, policy, replay_buffer, t, action, next_state,
                   reward, done_bool, eval>>

\* line 220, done is false
EpisodeContinues ==
    /\ pc = "episode_end"
    /\ ~done
    /\ pc' = "evaluate"
    /\ UNCHANGED <<args, fs, log, policy, replay_buffer, env, loopVars, eval, hist>>

\* lines 235-236: the evaluation branch is taken and eval_policy is called
EvaluateCall ==
    /\ pc = "evaluate"
    /\ ShouldEvaluate(episode_num, args)
    /\ eval' = [i |-> 0, in_episode |-> FALSE]
    /\ hist' = [hist EXCEPT !.iter = Append(@, "eval_policy"),
                            !.eval_calls = @ + 1,
                            !.gap = hist.since_eval,
                            !.since_eval = 0]
    /\ pc' = "eval_policy"
    /\ UNCHANGED <<args, fs, log, policy, replay_buffer, env, loopVars>>

\* line 235: the evaluation branch is not taken; the iteration ends
EvaluateSkip ==
    /\ pc = "evaluate"
    /\ ~ShouldEvaluate(episode_num, args)
    /\ t' = t + 1
    /\ pc' = "for"
    /\ UNCHANGED <<args, fs, log, policy, replay_buffer, env, state, done,
                   episode_reward, episode_timesteps, episode_num, action,
                   next_state, reward, done_bool, eval, hist>>

\* ------------------------------------------------------- eval_policy
\* lines 25-26
EvalReset ==
    /\ pc = "eval_policy"
    /\ eval.i < eval_episodes
    /\ ~eval.in_episode
    /\ eval' = [eval EXCEPT !.in_episode = TRUE]
    /\ UNCHANGED <<args, fs, log, pc, policy, replay_buffer, env, loopVars, hist>>

\* lines 28-33: one step of the evaluation environment
EvalStep ==
    /\ pc = "eval_policy"
    /\ eval.in_episode
    /\ \E d \in BOOLEAN :
          eval' = IF d THEN [i |-> eval.i + 1, in_episode |-> FALSE] ELSE eval
    /\ UNCHANGED <<args, fs, log, pc, policy, replay_buffer, env, loopVars, hist>>

\* lines 36-40 and 236-239: eval_policy returns and the line is written
EvalReturn ==
    /\ pc = "eval_policy"
    /\ eval.i = eval_episodes
    /\ ~eval.in_episode
    /\ log' = AppendLine(log, EvaluationLine(hist.eval_calls))
    /\ eval' = [i |-> 0, in_episode |-> FALSE]
    /\ pc' = "save"
    /\ UNCHANGED <<args, fs, policy, replay_buffer, env, loopVars, hist>>

\* lines 241-247: ./models exists, the agent is pickled
SaveModel ==
    /\ pc = "save"
    /\ fs.models_dir
    /\ args' = [args EXCEPT !.save_model = TRUE]
    /\ fs' = [fs EXCEPT !.model_file = TRUE]
    /\ episode_num' = episode_num + 1
    /\ t' = t + 1
    /\ hist' = [hist EXCEPT !.saves = @ + 1]
    /\ pc' = "for"
    /\ UNCHANGED <<log, policy, replay_buffer, env, state, done, episode_reward,
                   episode_timesteps, action, next_state, reward, done_bool, eval>>

\* lines 241-244: ./models does not exist, open(..., "wb") raises
SaveFails ==
    /\ pc = "save"
    /\ ~fs.models_dir
    /\ args' = [args EXCEPT !.save_model = TRUE]
    /\ pc' = "crashed"
    /\ UNCHANGED <<fs, log, policy, replay_buffer, env, loopVars, eval, hist>>

Next ==
    \/ MakeDirs
    \/ InitPolicy
    \/ ExitUnsupported
    \/ LoadModel
    \/ MakeBuffer
    \/ FirstReset
    \/ LoopEnter
    \/ LoopExit
    \/ SelectAction
    \/ EnvStep
    \/ StoreTransition
    \/ Train
    \/ EpisodeEnd
    \/ EpisodeContinues
    \/ EvaluateCall
    \/ EvaluateSkip
    \/ EvalReset
    \/ EvalStep
    \/ EvalReturn
    \/ SaveModel
    \/ SaveFails

Spec == Init /\ [][Next]_vars

SpecLong == InitLong /\ [][Next]_vars

\* ------------------------------------------------------- properties
Last(s) == s[Len(s)]

Range(s) == {s[i] : i \in 1..Len(s)}

IsCall(e) == e \in {"step", "add", "train"}

\* The calls of env.step, replay_buffer.add and policy.train of the current
\* (at pc = "for": the last) iteration, in the order they were made.
IterCalls == SelectSeq(hist.iter, IsCall)

\* The iteration has made its step, add and (conditional) train.
PastTrain ==
    \/ pc \in {"episode_end", "evaluate", "eval_policy", "save", "crashed"}
    \/ pc \in {"for", "finished"} /\ hist.steps > 0

\* C1: every iteration of the training loop steps the training environment
\* once, then calls replay_buffer.add once with the transition of that step
\* (state before the step, action, next_state, reward, done flag), then calls
\* policy.train at most once.
C1_StepAddTrain ==
    /\ PastTrain =>
          /\ IterCalls \in {<<"step", "add">>, <<"step", "add", "train">>}
          /\ replay_buffer.last =
                [state |-> hist.prev_state, action |-> action,
                 next_state |-> next_state, reward |-> reward, done |-> done_bool]
          /\ hist.prev_state # next_state
          /\ replay_buffer.adds = hist.steps
    /\ hist.steps = IF pc \in {"add", "train", "episode_end", "evaluate",
                                 "eval_policy", "save", "crashed"}
                    THEN t + 1 ELSE t

C1_Witness ==
    /\ pc = "evaluate"
    /\ t >= 1
    /\ IterCalls = <<"step", "add", "train">>

\* What one step of the script may do to the results log.
LogStep ==
    /\ IsPrefix(log, log')
    /\ Len(log') <= Len(log) + 1
    /\ (pc = "episode_end" /\ done) =>
          /\ Len(hist.rewards) >= 1
          /\ log' = Append(log, ResultRow(SumSeq(hist.rewards), Len(hist.rewards)))
    /\ (Len(log') > Len(log) /\ Last(log').kind = "row") =>
          pc = "episode_end" /\ done /\ hist.step_done
    /\ (pc = "eval_policy" /\ pc' # "eval_policy") =>
          /\ Len(log') = Len(log) + 1
          /\ Last(log').kind = "evaluation"

C3_EvalEveryFreqEpisodes ==
    (pc = "eval_policy" /\ hist.eval_calls >= 2) => hist.gap = args.eval_freq

PastLoad == pc \notin {"mkdirs", "init_policy", "load_model", "exited"}

C6_UnsupportedPolicyExits ==
    /\ args.policy # "TD3" =>
          /\ pc \in {"mkdirs", "init_policy", "exited"}
          /\ policy.origin = "unset"
          /\ ~replay_buffer.created
          /\ hist.resets = 0
          /\ hist.steps = 0
          /\ log = <<>>
          /\ hist.saves = 0
          /\ fs.model_file = hist.file0
    /\ pc = "exited" => args.policy # "TD3" /\ ~ENABLED Next

C6_Witness == pc = "exited" /\ fs.results_dir

\* C7 (as claimed): the training environment is never stepped more than
\* max_timesteps times, and when the training loop is over it has been
\* stepped exactly max_timesteps times.
C7_ExactlyMaxTimesteps ==
    /\ hist.steps <= args.max_timesteps
    /\ pc \in {"finished", "crashed"} => hist.steps = args.max_timesteps

\* C8 (as claimed): ./models exists whenever the evaluation branch opens
\* ./models/<load_model>.pkl for writing.
C8_ModelsDirExistsAtSave == pc = "save" => fs.models_dir

\* C9 (as claimed): eval_policy is called only in an iteration whose step
\* ended the episode, after the reset, with both episode counters at 0, and
\* at most once between two training-episode ends.
C9_EvalOnlyAtEpisodeEnd ==
    pc = "eval_policy" =>
       /\ hist.step_done
       /\ "reset" \in Range(hist.iter)
       /\ episode_timesteps = 0
       /\ episode_reward = 0
       /\ hist.eval_calls >= 2 => hist.gap >= 1

\* C10: the done flag stored in the replay buffer is 1 exactly when the step
\* reported done with episode_timesteps below max_episode_steps; an episode
\* that ends at or beyond the limit is stored with flag 0, and is still
\* logged and the episode counters are still reset.
C10_DoneFlagBelowLimit ==
    /\ pc \in {"train", "episode_end"} =>
          replay_buffer.last.done =
             IF done /\ episode_timesteps < max_episode_steps THEN 1 ELSE 0
    /\ (pc = "evaluate" /\ hist.step_done) =>
          /\ episode_timesteps = 0
          /\ episode_reward = 0
          /\ "reset" \in Range(hist.iter)
          /\ log # <<>>
          /\ Last(log).kind = "row"
          /\ Last(log).timesteps >= 1
          /\ replay_buffer.last.done =
                IF Last(log).timesteps < max_episode_steps THEN 1 ELSE 0

C10_Witness ==
    /\ pc = "evaluate"
    /\ hist.step_done
    /\ log # <<>>
    /\ Last(log) = ResultRow(max_episode_steps, max_episode_steps)
    /\ replay_buffer.last.done = 0
    /\ episode_timesteps = 0

====
